---- MODULE Spec2Model ----
(***************************************************************************)
(* A model of the CSS filter-list parser of src/src/filter.rs.             *)
(*                                                                         *)
(* Text is a sequence of one-character strings, so that the parser's       *)
(* character-level steps (trim, take_till, take_until, tag, char) are      *)
(* modelled as the code performs them.  An f32 is modelled by the exact    *)
(* rational <<numerator, denominator>> in lowest terms it stands for:      *)
(* rounding of the binary representation is abstracted, the arithmetic of  *)
(* the unit table is kept.                                                 *)
(***************************************************************************)
EXTENDS Integers, Sequences, FiniteSets, TLC

VARIABLES
  tc,       \* the call under study: how the argument text was put together
  orig,     \* css_filter's argument `input: &str`, as passed by the caller
  input,    \* css_filter's local `input`, the cursor into the text
  filters,  \* css_filter's local `filters`
  pc,       \* "entry" before line 178, "loop" at line 179, "done" after 190
  result    \* the variant css_filter returned: "none" until it returns

vars == <<tc, orig, input, filters, pc, result>>

---------------------------------------------------------------------------
(* Sequencing.  `let x = e;` is written Let(e, LAMBDA x : ...), and        *)
(* `let x = e?;` is written Try(e, LAMBDA x : ...): an error returns at    *)
(* once, as the ? operator does.                                           *)

Err == [ok |-> FALSE]

Ok(rest, out) == [ok |-> TRUE, rest |-> rest, out |-> out]

Let(v, F(_)) == F(v)

Try(r, F(_)) == IF r.ok THEN F(r) ELSE Err

---------------------------------------------------------------------------
(* Characters and text                                                     *)

Lower == {"a","b","c","d","e","f","g","h","i","j","k","l","m",
          "n","o","p","q","r","s","t","u","v","w","x","y","z"}

Upper == {"A","B","C","D","E","F","G","H","I","J","K","L","M",
          "N","O","P","Q","R","S","T","U","V","W","X","Y","Z"}

Digits == {"0","1","2","3","4","5","6","7","8","9"}

\* nom::character::is_alphabetic on an ASCII byte
is_alphabetic(c) == c \in Lower \cup Upper

\* char::is_whitespace, on the characters the model's texts are made of
is_whitespace(c) == c \in {" ", "\t", "\n"}

DigitVal(c) ==
  CASE c = "0" -> 0 [] c = "1" -> 1 [] c = "2" -> 2 [] c = "3" -> 3
    [] c = "4" -> 4 [] c = "5" -> 5 [] c = "6" -> 6 [] c = "7" -> 7
    [] c = "8" -> 8 [] c = "9" -> 9

\* s[from..], the text from position `from` on (empty when from > Len(s))
Drop(s, from) == SubSeq(s, from, Len(s))

\* s[..upto]
Take(s, upto) == SubSeq(s, 1, upto)

RECURSIVE SkipWsFrom(_, _)
\* the first position >= i of s that holds no whitespace (Len(s)+1 if none)
SkipWsFrom(s, i) ==
  IF i > Len(s) THEN i
  ELSE IF is_whitespace(s[i]) THEN SkipWsFrom(s, i + 1) ELSE i

RECURSIVE SkipWsBack(_, _)
\* the last position <= i of s that holds no whitespace (0 if none)
SkipWsBack(s, i) ==
  IF i < 1 THEN 0
  ELSE IF is_whitespace(s[i]) THEN SkipWsBack(s, i - 1) ELSE i

\* s[a..b], empty when a > b
Between(s, a, b) == IF a > b THEN <<>> ELSE SubSeq(s, a, b)

\* str::trim
trim(s) == Between(s, SkipWsFrom(s, 1), SkipWsBack(s, Len(s)))

starts_with(s, p) == Len(s) >= Len(p) /\ SubSeq(s, 1, Len(p)) = p

IsSuffix(t, s) == Len(t) <= Len(s) /\ Drop(s, Len(s) - Len(t) + 1) = t

RECURSIVE FindFrom(_, _, _)
\* str::find: the first position >= i where pattern p starts in s, 0 if none
FindFrom(s, p, i) ==
  IF i + Len(p) - 1 > Len(s) THEN 0
  ELSE IF SubSeq(s, i, i + Len(p) - 1) = p THEN i
  ELSE FindFrom(s, p, i + 1)

RECURSIVE FirstAlphaFrom(_, _)
\* the first position >= i of s holding an alphabetic character, Len(s)+1 if none
FirstAlphaFrom(s, i) ==
  IF i > Len(s) THEN i
  ELSE IF is_alphabetic(s[i]) THEN i ELSE FirstAlphaFrom(s, i + 1)

RECURSIVE FirstOfFrom(_, _, _)
\* the first position >= i of s holding a character of set cs, Len(s)+1 if none
FirstOfFrom(s, cs, i) ==
  IF i > Len(s) THEN i
  ELSE IF s[i] \in cs THEN i ELSE FirstOfFrom(s, cs, i + 1)

RECURSIVE DigitsEnd(_, _)
\* the position just after the run of decimal digits that starts at i
DigitsEnd(s, i) ==
  IF i > Len(s) THEN i
  ELSE IF s[i] \in Digits THEN DigitsEnd(s, i + 1) ELSE i

\* the text cut before position k: what precedes k, and what is left
SplitAt(s, k) == Ok(Drop(s, k), Take(s, k - 1))

---------------------------------------------------------------------------
(* Numbers: an f32 as the rational it denotes                              *)

Abs(n) == IF n < 0 THEN -n ELSE n

RECURSIVE Gcd(_, _)
Gcd(a, b) == IF b = 0 THEN a ELSE Gcd(b, a % b)

Reduce(n, d, g) == <<n \div g, d \div g>>

\* n/d in lowest terms with a positive denominator
Rat(n, d) ==
  IF d < 0 THEN Reduce(-n, -d, Gcd(Abs(n), Abs(d)))
  ELSE Reduce(n, d, Gcd(Abs(n), Abs(d)))

RMul(a, b) == Rat(a[1] * b[1], a[2] * b[2])

RDiv(a, b) == Rat(a[1] * b[2], a[2] * b[1])

RInt(n) == <<n, 1>>

RECURSIVE Pow10(_)
Pow10(k) == IF k = 0 THEN 1 ELSE 10 * Pow10(k - 1)

RECURSIVE DigitsVal(_, _, _)
\* the value of the decimal digits s[i..j]
DigitsVal(s, i, j) ==
  IF j < i THEN 0 ELSE 10 * DigitsVal(s, i, j - 1) + DigitVal(s[j])

\* the literal with sign `neg`, integer digits s[i0..ie-1], fraction digits
\* s[ie+1..fe-1] (nFrac of them) and decimal exponent e, ending before `next`
Literal(s, neg, i0, ie, fe, nFrac, e, next) ==
  [ok   |-> TRUE,
   next |-> next,
   val  |-> Rat((IF neg THEN -1 ELSE 1)
                  * (DigitsVal(s, i0, ie - 1) * Pow10(nFrac)
                       + (IF nFrac > 0 THEN DigitsVal(s, ie + 1, fe - 1) ELSE 0))
                  * (IF e > 0 THEN Pow10(e) ELSE 1),
                Pow10(nFrac) * (IF e < 0 THEN Pow10(-e) ELSE 1))]

\* the exponent: its marker must be followed by digits, s[e0..ee-1]
ScanExponent(s, neg, i0, ie, fe, nFrac, eNeg, e0, ee) ==
  IF ee = e0 THEN [ok |-> FALSE]
  ELSE Literal(s, neg, i0, ie, fe, nFrac,
               (IF eNeg THEN -1 ELSE 1) * DigitsVal(s, e0, ee - 1), ee)

\* the mantissa s[i0..fe-1] must hold a digit; an exponent may follow
ScanMantissa(s, neg, i0, ie, fe, nFrac) ==
  IF (ie - i0) + nFrac = 0 THEN [ok |-> FALSE]
  ELSE IF fe <= Len(s) /\ s[fe] \in {"e", "E"}
    THEN IF fe + 1 <= Len(s) /\ s[fe + 1] \in {"+", "-"}
           THEN ScanExponent(s, neg, i0, ie, fe, nFrac, s[fe + 1] = "-",
                             fe + 2, DigitsEnd(s, fe + 2))
           ELSE ScanExponent(s, neg, i0, ie, fe, nFrac, FALSE,
                             fe + 1, DigitsEnd(s, fe + 1))
  ELSE Literal(s, neg, i0, ie, fe, nFrac, 0, fe)

\* the integer digits s[i0..ie-1] and, after a point, the fraction digits
ScanDigits(s, neg, i0, ie) ==
  IF ie <= Len(s) /\ s[ie] = "."
    THEN Let(DigitsEnd(s, ie + 1),
             LAMBDA fe : ScanMantissa(s, neg, i0, ie, fe, fe - (ie + 1)))
    ELSE ScanMantissa(s, neg, i0, ie, ie, 0)

\* A decimal literal scanned from position i of s, as both Rust's f32 FromStr
\* and nom's recognize_float read one: an optional sign, digits with an
\* optional fraction (at least one digit in all), and an optional exponent
\* whose marker must be followed by digits.  The words inf, infinity and nan
\* are outside the texts the model draws numbers from.
Scan(s, i) ==
  IF i <= Len(s) /\ s[i] \in {"+", "-"}
    THEN ScanDigits(s, s[i] = "-", i + 1, DigitsEnd(s, i + 1))
    ELSE ScanDigits(s, FALSE, i, DigitsEnd(s, i))

\* the whole text must be the literal r
WholeLiteral(s, r) ==
  IF r.ok /\ r.next = Len(s) + 1 THEN [ok |-> TRUE, out |-> r.val]
  ELSE [ok |-> FALSE]

\* str::parse::<f32>
parse_f32(s) == WholeLiteral(s, Scan(s, 1))

---------------------------------------------------------------------------
(* nom combinators (the `complete` variants the code imports)              *)

\* tag(t): the input must start with t
tag(t, s) ==
  IF starts_with(s, t) THEN Ok(Drop(s, Len(t) + 1), t) ELSE Err

\* char(c): the input's first character must be c
char(c, s) ==
  IF Len(s) >= 1 /\ s[1] = c THEN Ok(Drop(s, 2), c) ELSE Err

\* take_until(p): everything before the first occurrence of p, which must exist
take_until(p, s) ==
  Let(FindFrom(s, p, 1), LAMBDA k : IF k = 0 THEN Err ELSE SplitAt(s, k))

\* take_till(|c| is_alphabetic(c)): the longest prefix without a letter; never fails
take_till_alphabetic(s) == SplitAt(s, FirstAlphaFrom(s, 1))

\* take_till(|c| c is one of cs): the longest prefix without such a character
take_till(cs, s) == SplitAt(s, FirstOfFrom(s, cs, 1))

\* the literal r at the start of the input
PrefixLiteral(s, r) == IF r.ok THEN Ok(Drop(s, r.next), r.val) ELSE Err

\* number::complete::float
float(s) == PrefixLiteral(s, Scan(s, 1))

---------------------------------------------------------------------------
(* The filter values (enum CssFilter) and the unit normalizer              *)

Blur(v) == [kind |-> "Blur", v |-> v]

Brightness(v) == [kind |-> "Brightness", v |-> v]

Contrast(v) == [kind |-> "Contrast", v |-> v]

DropShadow(x, y, b, c) ==
  [kind |-> "DropShadow", x |-> x, y |-> y, blur |-> b, color |-> c]

\* a failed length: FloatErr for ParseFloatError, UnitErr for UnitParseError
PixelErr(why) == [ok |-> FALSE, why |-> why]

Px(v) == [ok |-> TRUE, out |-> v]

\* the mutant of NoUnit: a number without a unit is taken as pixels
NoUnit_AnyNumber(size) == Px(size)

\* lines 76-80: without a unit only 0 is a length
NoUnit(size) == IF size # RInt(0) THEN PixelErr("UnitErr") ELSE Px(size)

\* the mutant of OtherUnit: an unknown unit is taken as pixels
OtherUnit_AsPx(size, u) == Px(size)

\* lines 81-83: any other unit is an error
OtherUnit(size, u) == PixelErr("UnitErr")

\* the match on unit.trim(): the pixel value of `size` in unit u
UnitToPx(size, u) ==
  CASE u \in {<<"e","m">>, <<"r","e","m">>, <<"p","c">>} -> Px(RMul(size, RInt(16)))
    [] u = <<"p","t">> -> Px(RDiv(RMul(size, RInt(4)), RInt(3)))
    [] u = <<"p","x">> -> Px(size)
    [] u = <<"i","n">> -> Px(RMul(size, RInt(96)))
    [] u = <<"c","m">> -> Px(RDiv(RMul(size, RInt(96)), Rat(254, 100)))
    [] u = <<"m","m">> -> Px(RDiv(RMul(size, RInt(96)), Rat(254, 10)))
    [] u = <<"q">>  -> Px(RDiv(RDiv(RMul(size, RInt(96)), Rat(254, 10)), RInt(4)))
    [] u = <<"%">>  -> Px(RDiv(RMul(size, RInt(16)), RInt(100)))
    [] u = <<>>   -> NoUnit(size)
    [] OTHER      -> OtherUnit(size, u)

\* lines 49-86: the number parsed, then the unit applied
SizeInUnit(size, unit) ==
  IF ~size.ok THEN PixelErr("FloatErr") ELSE UnitToPx(size.out, trim(unit))

\* the mutant of pixel: the number and the unit are not trimmed
pixel_NoTrim(s) ==
  Let(take_till_alphabetic(s), LAMBDA a :
  Let(take_till({")"}, a.rest), LAMBDA b :
  IF ~parse_f32(a.out).ok THEN PixelErr("FloatErr")
  ELSE UnitToPx(parse_f32(a.out).out, b.out)))

\* fn pixel: the number is what precedes the first letter, the unit what
\* follows up to the next `)`
pixel(s) ==
  Let(take_till_alphabetic(s), LAMBDA a :
  Let(take_till({")"}, a.rest), LAMBDA b :
  SizeInUnit(parse_f32(trim(a.out)), b.out)))

\* map_res(p, pixel): p's output must be a length
map_res_pixel(t) ==
  Try(t, LAMBDA r :
  Let(pixel(r.out), LAMBDA p :
  IF p.ok THEN Ok(r.rest, p.out) ELSE Err))

\* fn pixel_in_tuple
pixel_in_tuple(s) == map_res_pixel(take_until(<<")">>, s))

\* the mutant of PercentOrNumber: the percent sign is consumed, the number kept
PercentOrNumber_NoDivide(f, pct) ==
  IF pct.ok THEN Ok(pct.rest, f.out) ELSE Ok(f.rest, f.out)

\* lines 97-101: a percent sign after the number divides it by 100
PercentOrNumber(f, pct) ==
  IF pct.ok THEN Ok(pct.rest, RDiv(f.out, RInt(100))) ELSE Ok(f.rest, f.out)

\* fn number_percentage
number_percentage(s) ==
  Try(float(trim(s)), LAMBDA f :
  PercentOrNumber(f, tag(<<"%">>, trim(f.rest))))

---------------------------------------------------------------------------
(* The per-function grammars                                               *)

\* fn blur_parser
blur_parser(s) ==
  Try(tag(<<"b","l","u","r","(">>, s), LAMBDA t :
  Try(pixel_in_tuple(t.rest), LAMBDA p :
  Try(char(")", p.rest), LAMBDA c :
  Ok(trim(c.rest), Blur(p.out)))))

\* fn brightness_parser
brightness_parser(s) ==
  Try(tag(<<"b","r","i","g","h","t","n","e","s","s","(">>, s), LAMBDA t :
  Try(number_percentage(t.rest), LAMBDA n :
  Try(char(")", trim(n.rest)), LAMBDA c :
  Ok(trim(c.rest), Brightness(n.out)))))

\* fn contrast_parser
contrast_parser(s) ==
  Try(tag(<<"c","o","n","t","r","a","s","t","(">>, s), LAMBDA t :
  Try(number_percentage(t.rest), LAMBDA n :
  Try(char(")", trim(n.rest)), LAMBDA c :
  Ok(trim(c.rest), Contrast(n.out)))))

---------------------------------------------------------------------------
(* Colours: cssparser's Color::parse as parse_drop_shadow calls it         *)

RGBA(r, g, b, a) == <<r, g, b, a>>

\* static BLACK
BLACK == RGBA(0, 0, 0, 255)

HexDigits == Digits \cup {"a","b","c","d","e","f","A","B","C","D","E","F"}

HexVal(c) ==
  CASE c \in Digits     -> DigitVal(c)
    [] c \in {"a", "A"} -> 10 [] c \in {"b", "B"} -> 11 [] c \in {"c", "C"} -> 12
    [] c \in {"d", "D"} -> 13 [] c \in {"e", "E"} -> 14 [] c \in {"f", "F"} -> 15

\* the named and functional colours the model's texts use, with the value
\* cssparser gives each (an unclosed function is closed by the end of input)
KnownColors ==
  { [text |-> <<"r","e","d">>, rgba |-> RGBA(255, 0, 0, 255)],
    [text |-> <<"r","g","b","a","(","4","7",","," ","2","0",","," ","2","2","3",","," ","2","5","5">>, rgba |-> RGBA(47, 20, 223, 255)],
    [text |-> <<"r","g","b","(","4","7",","," ","2","0",","," ","2","2","3">>, rgba |-> RGBA(47, 20, 223, 255)] }

\* one hex digit doubled, two hex digits
Hex1(tok, i) == 17 * HexVal(tok[i])

Hex2(tok, i) == 16 * HexVal(tok[i]) + HexVal(tok[i + 1])

\* a hash token of 3, 4, 6 or 8 hex digits
IsHexColor(tok) ==
  /\ Len(tok) \in {4, 5, 7, 9}
  /\ tok[1] = "#"
  /\ \A i \in 2..Len(tok) : tok[i] \in HexDigits

HexColor(tok) ==
  IF Len(tok) \in {4, 5}
    THEN RGBA(Hex1(tok, 2), Hex1(tok, 3), Hex1(tok, 4),
              IF Len(tok) = 5 THEN Hex1(tok, 5) ELSE 255)
    ELSE RGBA(Hex2(tok, 2), Hex2(tok, 4), Hex2(tok, 6),
              IF Len(tok) = 9 THEN Hex2(tok, 8) ELSE 255)

\* the colour of the first token: a hex colour or a known colour
TokenColor(tok) ==
  IF IsHexColor(tok) THEN [ok |-> TRUE, out |-> HexColor(tok)]
  ELSE IF \E k \in KnownColors : k.text = tok
    THEN [ok |-> TRUE, out |-> (CHOOSE k \in KnownColors : k.text = tok).rgba]
  ELSE [ok |-> FALSE]

\* Color::parse on the trimmed colour text; what follows the first token is
\* not looked at
color_parse(s) ==
  IF starts_with(s, <<"r","g","b","(">>) \/ starts_with(s, <<"r","g","b","a","(">>)
    THEN TokenColor(s)
    ELSE TokenColor(take_till({" ", "\t", "\n"}, s).out)

\* lines 152-163: an empty or unparsable colour is BLACK
ShadowColor(shadow_color_str, parsed) ==
  IF shadow_color_str # <<>> /\ parsed.ok THEN parsed.out ELSE BLACK

---------------------------------------------------------------------------
(* fn parse_drop_shadow                                                    *)

\* lines 138-140: a blur-radius that does not parse is 0 and consumes nothing
BlurRadiusOrDefault(r, offset_y_output) ==
  IF r.ok THEN r ELSE Ok(offset_y_output, RInt(0))

\* the mutant of ClosingParens: one `)` is consumed whatever the colour
ClosingParens_One(s, is_rgb_fn) == char(")", trim(s))

\* lines 164-168: one `)`, and a second one after an rgb()/rgba() colour
ClosingParens(s, is_rgb_fn) ==
  Try(char(")", trim(s)), LAMBDA c1 :
  IF is_rgb_fn THEN char(")", c1.rest) ELSE c1)

\* lines 142-172: the colour, the closing parentheses, the value
DropShadowTail(s, is_rgb_fn, x, y, b) ==
  Try(take_until(IF is_rgb_fn THEN <<")",")">> ELSE <<")">>, s), LAMBDA col :
  Let(trim(col.out), LAMBDA shadow_color_str :
  Try(ClosingParens(col.rest, is_rgb_fn), LAMBDA cl :
  Ok(trim(cl.rest),
     DropShadow(x, y, b, ShadowColor(shadow_color_str, color_parse(shadow_color_str)))))))

parse_drop_shadow(s) ==
  Try(tag(<<"d","r","o","p","-","s","h","a","d","o","w","(">>, s), LAMBDA t :
  Try(map_res_pixel(take_until(<<" ">>, trim(t.rest))), LAMBDA x :
  Try(map_res_pixel(take_till({" ", ")"}, trim(x.rest))), LAMBDA y :
  Let(trim(y.rest), LAMBDA offset_y_output :
  Let(BlurRadiusOrDefault(map_res_pixel(take_till({" ", ")"}, offset_y_output)),
                          offset_y_output), LAMBDA b :
  Let(trim(b.rest), LAMBDA blur_radius_output :
  DropShadowTail(blur_radius_output,
                 starts_with(blur_radius_output, <<"r","g","b","(">>)
                   \/ starts_with(blur_radius_output, <<"r","g","b","a","(">>),
                 x.out, y.out, b.out)))))))

---------------------------------------------------------------------------
(* fn css_filter                                                           *)

\* alt's fallback: r if it matched, else the next grammar's result
OrElse(r, next) == IF r.ok THEN r ELSE next

\* alt((blur_parser, brightness_parser, contrast_parser, parse_drop_shadow)):
\* the first grammar, in this order, that matches
alt(s) ==
  OrElse(blur_parser(s),
  OrElse(brightness_parser(s),
  OrElse(contrast_parser(s),
         parse_drop_shadow(s))))

RECURSIVE Loop(_, _)
\* lines 179-190 run to the end: the filters of every match, in order, and
\* the text no grammar matched
Loop(s, fs) ==
  Let(alt(s), LAMBDA r :
  IF r.ok THEN Loop(r.rest, Append(fs, r.out)) ELSE Ok(s, fs))

\* fn css_filter, as a function of its argument
css_filter(s) == Loop(trim(s), <<>>)

---------------------------------------------------------------------------
(* The calls under study.  A call's argument is put together from          *)
(* function texts; `tc` keeps how, so that a property can speak of "the    *)
(* blur whose unit is pt" rather than of one literal text.                 *)

\* the longest run of spaces put where whitespace is optional
MaxWs == 1

\* the most functions in a list
MaxFns == 3

Spaces(n) == [i \in 1..n |-> " "]

Ws == {Spaces(n) : n \in 0..MaxWs}

Seps == {Spaces(n) : n \in 1..MaxWs} \cup {<<"\t">>}

Num(t, n, d) == [text |-> t, val |-> Rat(n, d)]

Nums ==
  { Num(<<"0">>, 0, 1), Num(<<"2">>, 2, 1), Num(<<"2","0">>, 20, 1), Num(<<"1",".","5">>, 3, 2),
    Num(<<"-","2","0">>, -20, 1), Num(<<"5","0">>, 50, 1) }

\* the units of the conversion table, no unit, and a unit the table lacks
TableUnits ==
  {<<"e","m">>, <<"r","e","m">>, <<"p","c">>, <<"p","t">>, <<"p","x">>, <<"i","n">>, <<"c","m">>, <<"m","m">>, <<"q">>, <<"%">>}

Units == TableUnits \cup {<<>>, <<"z","z">>}

Length(num, unit) == [num |-> num, unit |-> unit]

LengthText(l) == l.num.text \o l.unit

BlurFn(w1, num, w2, unit, w3) ==
  [kind |-> "blur", w1 |-> w1, len |-> Length(num, unit), w2 |-> w2, w3 |-> w3]

\* suffix: nothing, a percent sign, or a length unit
FactorFn(kind, w1, num, w2, suffix, w3) ==
  [kind |-> kind, w1 |-> w1, num |-> num, w2 |-> w2, suffix |-> suffix, w3 |-> w3]

Absent == [present |-> FALSE]

Present(a) == [present |-> TRUE, arg |-> a]

ColorArg(t, parsable, rgba) == [text |-> t, parsable |-> parsable, rgba |-> rgba]

ColorArgs ==
  { ColorArg(<<"r","e","d">>, TRUE, RGBA(255, 0, 0, 255)),
    ColorArg(<<"#","2","F","1","4","D","F">>, TRUE, RGBA(47, 20, 223, 255)),
    ColorArg(<<"r","g","b","a","(","4","7",","," ","2","0",","," ","2","2","3",","," ","2","5","5",")">>, TRUE, RGBA(47, 20, 223, 255)),
    ColorArg(<<"r","g","b","(","4","7",","," ","2","0",","," ","2","2","3",")">>, TRUE, RGBA(47, 20, 223, 255)),
    ColorArg(<<"z","z","z">>, FALSE, BLACK) }

ShadowFn(x, y, b, c) ==
  [kind |-> "drop-shadow", x |-> x, y |-> y, b |-> b, c |-> c]

\* a drop-shadow closed after its first length, and the text that follows
ShortShadowFn(x, tail) == [kind |-> "short-shadow", x |-> x, tail |-> tail]

RawFn(t) == [kind |-> "raw", text |-> t]

FnText(f) ==
  CASE f.kind = "blur" ->
         <<"b","l","u","r","(">> \o f.w1 \o f.len.num.text \o f.w2 \o f.len.unit \o f.w3 \o <<")">>
    [] f.kind \in {"brightness", "contrast"} ->
         (IF f.kind = "brightness" THEN <<"b","r","i","g","h","t","n","e","s","s","(">> ELSE <<"c","o","n","t","r","a","s","t","(">>)
           \o f.w1 \o f.num.text \o f.w2 \o f.suffix \o f.w3 \o <<")">>
    [] f.kind = "drop-shadow" ->
         <<"d","r","o","p","-","s","h","a","d","o","w","(">> \o LengthText(f.x) \o <<" ">> \o LengthText(f.y)
           \o (IF f.b.present THEN <<" ">> \o LengthText(f.b.arg) ELSE <<>>)
           \o (IF f.c.present THEN <<" ">> \o f.c.arg.text ELSE <<>>)
           \o <<")">>
    [] f.kind = "short-shadow" ->
         <<"d","r","o","p","-","s","h","a","d","o","w","(">> \o LengthText(f.x) \o <<")">> \o f.tail
    [] f.kind = "raw" -> f.text

RECURSIVE Join(_, _, _)
\* the texts of fns[i..], separated by sep
Join(fns, sep, i) ==
  IF i > Len(fns) THEN <<>>
  ELSE IF i = Len(fns) THEN FnText(fns[i])
  ELSE FnText(fns[i]) \o sep \o Join(fns, sep, i + 1)

Case(fam, lead, fns, sep, trail) ==
  [fam |-> fam, lead |-> lead, fns |-> fns, sep |-> sep, trail |-> trail]

CaseText(c) == c.lead \o Join(c.fns, c.sep, 1) \o c.trail

\* one blur: every number, unit and placement of optional spaces
BlurCases ==
  { Case("blur", <<>>, <<BlurFn(w1, n, w2, u, w3)>>, <<" ">>, <<>>) :
      w1 \in Ws, n \in Nums, w2 \in Ws, u \in Units, w3 \in Ws }

\* one brightness or contrast
FactorCases ==
  { Case("factor", <<>>, <<FactorFn(k, w1, n, w2, s, w3)>>, <<" ">>, <<>>) :
      k \in {"brightness", "contrast"}, w1 \in Ws, n \in Nums, w2 \in Ws,
      s \in {<<>>, <<"%">>, <<"p","x">>}, w3 \in Ws }

ShadowLengths ==
  { Length(Num(<<"2">>, 2, 1), <<"p","x">>), Length(Num(<<"0">>, 0, 1), <<>>),
    Length(Num(<<"-","1",".","5">>, -3, 2), <<"e","m">>), Length(Num(<<"2">>, 2, 1), <<"z","z">>) }

ShadowFns ==
  { ShadowFn(x, y, b, c) :
      x \in ShadowLengths, y \in ShadowLengths,
      b \in {Absent} \cup {Present(l) : l \in ShadowLengths},
      c \in {Absent} \cup {Present(a) : a \in ColorArgs} }

Follower == BlurFn(<<>>, Num(<<"2","0">>, 20, 1), <<>>, <<"p","x">>, <<>>)

\* one drop-shadow, alone or followed by a blur
ShadowCases ==
  { Case("shadow", <<>>, fns, <<" ">>, <<>>) :
      fns \in {<<f>> : f \in ShadowFns} \cup {<<f, Follower>> : f \in ShadowFns} }

ShortTails == {<<>>, <<" ","2","p","x",")">>, <<" ","2","p","x"," ","5","p","x",")">>, <<" ","b","l","u","r","(","2","0","p","x",")">>, <<" ","b","r","i","g","h","t","n","e","s","s","(","2",")">>}

\* a drop-shadow with one length inside its parentheses
ShortShadowCases ==
  { Case("short-shadow", <<>>, <<ShortShadowFn(x, t)>>, <<" ">>, <<>>) :
      x \in ShadowLengths, t \in ShortTails }

\* the functions lists are made of: well-formed ones of every kind, a
\* function the parser does not know, and a blur of a unitless 5
ListFns ==
  { BlurFn(<<>>, Num(<<"2","0">>, 20, 1), <<>>, <<"p","x">>, <<>>),
    BlurFn(<<>>, Num(<<"1",".","5">>, 3, 2), <<>>, <<"r","e","m">>, <<>>),
    FactorFn("brightness", <<>>, Num(<<"2">>, 2, 1), <<>>, <<>>, <<>>),
    FactorFn("contrast", <<>>, Num(<<"2","0","0">>, 200, 1), <<>>, <<"%">>, <<>>),
    ShadowFn(Length(Num(<<"2">>, 2, 1), <<"p","x">>), Length(Num(<<"2">>, 2, 1), <<"p","x">>),
             Absent, Absent),
    ShadowFn(Length(Num(<<"2">>, 2, 1), <<"p","x">>), Length(Num(<<"2">>, 2, 1), <<"p","x">>),
             Present(Length(Num(<<"5">>, 5, 1), <<"p","x">>)),
             Present(ColorArg(<<"r","g","b","a","(","4","7",","," ","2","0",","," ","2","2","3",","," ","2","5","5",")">>, TRUE, RGBA(47, 20, 223, 255)))),
    RawFn(<<"u","n","k","n","o","w","n","-","f","n","(","1",")">>),
    BlurFn(<<>>, Num(<<"5">>, 5, 1), <<>>, <<>>, <<>>) }

\* lists of up to MaxFns functions
ListCases ==
  { Case("list", <<>>, fns, sep, <<>>) :
      fns \in UNION {[1..n -> ListFns] : n \in 1..MaxFns}, sep \in Seps }

\* the empty text, and one function with spaces around the whole text
PaddedCases ==
  { Case("padded", lead, fns, <<" ">>, trail) :
      lead \in Ws, trail \in Ws, fns \in {<<>>} \cup {<<f>> : f \in ListFns} }


---------------------------------------------------------------------------
(* fn css_filter as a state machine                                        *)

Init ==
  /\ \/ tc \in BlurCases
     \/ tc \in FactorCases
     \/ tc \in ShadowCases
     \/ tc \in ShortShadowCases
     \/ tc \in ListCases
     \/ tc \in PaddedCases
  /\ orig = CaseText(tc)
  /\ input = orig
  /\ filters = <<>>
  /\ pc = "entry"
  /\ result = "none"

\* lines 177-178: the empty list, and the argument trimmed once
Enter ==
  /\ pc = "entry"
  /\ filters' = <<>>
  /\ input' = trim(input)
  /\ pc' = "loop"
  /\ UNCHANGED <<tc, orig, result>>

\* the mutant of Advance: a filter equal to one already in the list is dropped
Advance_NoDuplicates(r) ==
  /\ input' = r.rest
  /\ filters' = IF \E i \in 1..Len(filters) : filters[i] = r.out
                  THEN filters ELSE Append(filters, r.out)
  /\ UNCHANGED <<tc, orig, pc, result>>

\* the mutant of Advance: the cursor is not moved to the match's remainder
Advance_KeepsCursor(r) ==
  /\ input' = input
  /\ filters' = Append(filters, r.out)
  /\ UNCHANGED <<tc, orig, pc, result>>

\* lines 186-187: the loop body
Advance(r) ==
  /\ input' = r.rest
  /\ filters' = Append(filters, r.out)
  /\ UNCHANGED <<tc, orig, pc, result>>

\* line 179, blur_parser matched
MatchBlur ==
  /\ pc = "loop"
  /\ alt(input).ok
  /\ alt(input).out.kind = "Blur"
  /\ Advance(alt(input))

\* line 179, brightness_parser matched
MatchBrightness ==
  /\ pc = "loop"
  /\ alt(input).ok
  /\ alt(input).out.kind = "Brightness"
  /\ Advance(alt(input))

\* line 179, contrast_parser matched
MatchContrast ==
  /\ pc = "loop"
  /\ alt(input).ok
  /\ alt(input).out.kind = "Contrast"
  /\ Advance(alt(input))

\* line 179, parse_drop_shadow matched
MatchDropShadow ==
  /\ pc = "loop"
  /\ alt(input).ok
  /\ alt(input).out.kind = "DropShadow"
  /\ Advance(alt(input))

\* the mutant of Return: text left over makes the whole call an error
Return_ErrOnRemainder ==
  /\ pc = "loop"
  /\ ~alt(input).ok
  /\ pc' = "done"
  /\ result' = IF input = <<>> THEN "Ok" ELSE "Err"
  /\ UNCHANGED <<tc, orig, input, filters>>

\* lines 179 and 190: no grammar matched, the loop ends and Ok is returned
Return ==
  /\ pc = "loop"
  /\ ~alt(input).ok
  /\ pc' = "done"
  /\ result' = "Ok"
  /\ UNCHANGED <<tc, orig, input, filters>>

Next ==
  \/ Enter
  \/ MatchBlur
  \/ MatchBrightness
  \/ MatchContrast
  \/ MatchDropShadow
  \/ Return

Spec == Init /\ [][Next]_vars

---------------------------------------------------------------------------
(* What the specification says a function text stands for                  *)

Done == pc = "done"

\* the conversion table of the specification's unit normalizer
TableMultiplier(u) ==
  CASE u \in {<<"e","m">>, <<"r","e","m">>, <<"p","c">>} -> RInt(16)
    [] u = <<"p","t">> -> Rat(4, 3)
    [] u = <<"p","x">> -> RInt(1)
    [] u = <<"i","n">> -> RInt(96)
    [] u = <<"c","m">> -> Rat(9600, 254)
    [] u = <<"m","m">> -> Rat(960, 254)
    [] u = <<"q">>  -> Rat(240, 254)
    [] u = <<"%">>  -> Rat(16, 100)
    [] u = <<>>   -> RInt(1)

\* a length the table gives a value: a table unit, or a unitless zero
LengthOk(l) == l.unit \in TableUnits \/ (l.unit = <<>> /\ l.num.val = RInt(0))

LengthPx(l) == RMul(l.num.val, TableMultiplier(l.unit))

\* a length the table gives a value, in a unit other than `%`
PlainLength(l) == LengthOk(l) /\ l.unit # <<"%">>

WellFormed(f) ==
  CASE f.kind = "blur" -> PlainLength(f.len)
    [] f.kind \in {"brightness", "contrast"} -> f.suffix \in {<<>>, <<"%">>}
    [] f.kind = "drop-shadow" ->
         /\ PlainLength(f.x)
         /\ PlainLength(f.y)
         /\ f.b.present => PlainLength(f.b.arg)
    [] OTHER -> FALSE

Factor(f) == IF f.suffix = <<"%">> THEN RDiv(f.num.val, RInt(100)) ELSE f.num.val

\* the filter a well-formed function text stands for
Expected(f) ==
  CASE f.kind = "blur" -> Blur(LengthPx(f.len))
    [] f.kind = "brightness" -> Brightness(Factor(f))
    [] f.kind = "contrast" -> Contrast(Factor(f))
    [] f.kind = "drop-shadow" ->
         DropShadow(LengthPx(f.x), LengthPx(f.y),
                    IF f.b.present THEN LengthPx(f.b.arg) ELSE RInt(0),
                    IF f.c.present /\ f.c.arg.parsable THEN f.c.arg.rgba ELSE BLACK)

\* the filters of fns[1..n]
ExpectedList(fns, n) == [i \in 1..n |-> Expected(fns[i])]

\* the position of the first function of fns that is not well-formed
FirstBad(fns) ==
  IF \A i \in 1..Len(fns) : WellFormed(fns[i]) THEN Len(fns) + 1
  ELSE CHOOSE i \in 1..Len(fns) :
         /\ ~WellFormed(fns[i])
         /\ \A j \in 1..(i - 1) : WellFormed(fns[j])

\* the only function of a one-function call
TheFn == tc.fns[1]

\* the same function text without its optional spaces
Compact(f) == [f EXCEPT !.w1 = <<>>, !.w2 = <<>>, !.w3 = <<>>]

---------------------------------------------------------------------------
(* The claims                                                              *)

\* C1: css_filter always returns Ok.  When no grammar matches at the current
\* position the loop stops, the filters parsed before that position are all
\* in the returned list and the returned remainder is exactly the text not
\* consumed: "blur(20px) unknown-fn(1)" gives [Blur(20)] and "unknown-fn(1)",
\* the empty text gives [] and "".
C1_NeverFails ==
  /\ result \in {"none", "Ok"}
  /\ Done =>
       /\ result = "Ok"
       /\ IsSuffix(input, trim(orig))
       /\ ~alt(input).ok
       /\ tc.fam = "list" =>
            /\ filters = ExpectedList(tc.fns, FirstBad(tc.fns) - 1)
            /\ input = Join(tc.fns, tc.sep, FirstBad(tc.fns))
       /\ orig = <<"b","l","u","r","(","2","0","p","x",")"," ","u","n","k","n","o","w","n","-","f","n","(","1",")">> =>
            filters = <<Blur(RInt(20))>> /\ input = <<"u","n","k","n","o","w","n","-","f","n","(","1",")">>
       /\ orig = <<>> => filters = <<>> /\ input = <<>>

\* C1's case: a list whose second function is unknown has returned its first
\* filter and the unknown function's text
C1_Witness ==
  /\ Done
  /\ orig = <<"b","l","u","r","(","2","0","p","x",")"," ","u","n","k","n","o","w","n","-","f","n","(","1",")">>
  /\ Len(filters) = 1
  /\ input = <<"u","n","k","n","o","w","n","-","f","n","(","1",")">>

\* C2: a whitespace-separated list of well-formed functions gives one filter
\* per function, in the order of the text, and an empty remainder; a kind
\* that occurs twice gives two filters.
C2_OnePerFunctionInOrder ==
  (Done /\ tc.fam = "list" /\ \A i \in 1..Len(tc.fns) : WellFormed(tc.fns[i])) =>
    /\ Len(filters) = Len(tc.fns)
    /\ filters = ExpectedList(tc.fns, Len(tc.fns))
    /\ input = <<>>

\* C2's case: three functions, the first and the third the same text, the
\* second of another kind
C2_Witness ==
  /\ Done
  /\ tc.fam = "list"
  /\ Len(tc.fns) = 3
  /\ \A i \in 1..3 : WellFormed(tc.fns[i])
  /\ tc.fns[1] = tc.fns[3]
  /\ tc.fns[1].kind = "drop-shadow"
  /\ tc.fns[2].kind = "blur"
  /\ Len(filters) = 3

\* C3: a blur length in `%` is the number times 16/100, with nothing left:
\* "blur(50%)" gives [Blur(8)].
C3_PercentLength ==
  (Done /\ tc.fam = "blur" /\ TheFn.len.unit = <<"%">>) =>
    /\ filters = <<Blur(RDiv(RMul(TheFn.len.num.val, RInt(16)), RInt(100)))>>
    /\ input = <<>>

\* C4: a blur length without a unit is accepted only when it is 0: then the
\* result is [Blur(0)] and nothing is left; otherwise the list is empty and
\* the whole text is left.
C4_UnitlessOnlyZero ==
  (Done /\ tc.fam = "blur" /\ TheFn.len.unit = <<>>) =>
    IF TheFn.len.num.val = RInt(0)
      THEN filters = <<Blur(RInt(0))>> /\ input = <<>>
      ELSE filters = <<>> /\ input = orig

\* C4's case: a blur of a unitless nonzero number was refused
C4_Witness ==
  /\ Done
  /\ tc.fam = "blur"
  /\ TheFn.len.unit = <<>>
  /\ TheFn.len.num.val = RInt(20)
  /\ filters = <<>>
  /\ input = orig

\* a unit the table lacks
UnknownUnit(l) == l.unit \notin TableUnits \cup {<<>>}

\* the function text has a length argument with a unit the table lacks
HasUnknownUnit(f) ==
  CASE f.kind = "blur" -> UnknownUnit(f.len)
    [] f.kind = "drop-shadow" ->
         \/ UnknownUnit(f.x)
         \/ UnknownUnit(f.y)
         \/ f.b.present /\ UnknownUnit(f.b.arg)
    [] OTHER -> FALSE

\* C5 as stated: an unknown unit in any length argument (the blur length, the
\* offset-x, offset-y or blur-radius of drop-shadow) makes the grammar fail:
\* no filter is produced and the function's text is left.
C5_UnknownUnitFails ==
  (Done /\ tc.fam \in {"blur", "shadow"} /\ HasUnknownUnit(TheFn)) =>
    filters = <<>> /\ input = orig

\* the unknown unit is in the blur length or in one of the two offsets
UnknownUnitInMandatory(f) ==
  CASE f.kind = "blur" -> UnknownUnit(f.len)
    [] f.kind = "drop-shadow" -> UnknownUnit(f.x) \/ UnknownUnit(f.y)
    [] OTHER -> FALSE

\* C5 amended: an unknown unit in the blur length or in drop-shadow's
\* offset-x or offset-y makes the grammar fail, no filter is produced and the
\* function's text is left; an unknown unit in drop-shadow's blur-radius does
\* not: the drop-shadow still matches, with its offsets and a blur-radius of 0.
C5_UnknownUnitAmended ==
  (Done /\ tc.fam \in {"blur", "shadow"}) =>
    /\ UnknownUnitInMandatory(TheFn) => filters = <<>> /\ input = orig
    /\ ( /\ TheFn.kind = "drop-shadow"
         /\ PlainLength(TheFn.x)
         /\ PlainLength(TheFn.y)
         /\ TheFn.b.present
         /\ UnknownUnit(TheFn.b.arg) ) =>
           /\ Len(filters) >= 1
           /\ filters[1].kind = "DropShadow"
           /\ filters[1].x = LengthPx(TheFn.x)
           /\ filters[1].y = LengthPx(TheFn.y)
           /\ filters[1].blur = RInt(0)

\* C5's case: a drop-shadow whose blur-radius has an unknown unit has matched
C5_Witness ==
  /\ Done
  /\ tc.fam = "shadow"
  /\ PlainLength(TheFn.x)
  /\ PlainLength(TheFn.y)
  /\ TheFn.b.present
  /\ UnknownUnit(TheFn.b.arg)
  /\ Len(filters) >= 1
  /\ filters[1].blur = RInt(0)

\* the call with the optional spaces of its function and the spaces around
\* the whole text left out
CompactText == FnText(IF tc.fam = "padded" THEN TheFn ELSE Compact(TheFn))

\* C6: optional spaces do not change the result.  Where the compact text of a
\* blur, brightness or contrast gives one filter and nothing left, the text
\* with spaces after `(`, between number and unit or `%`, before `)` or
\* around the whole input gives that same filter and nothing left;
\* every spacing of "blur(20px)" gives [Blur(20)].
C6_SpacesDoNotMatter ==
  (Done /\ tc.fam \in {"blur", "factor", "padded"} /\ Len(tc.fns) = 1) =>
    /\ ( /\ Len(css_filter(CompactText).out) = 1
         /\ css_filter(CompactText).rest = <<>> ) =>
           /\ filters = css_filter(CompactText).out
           /\ input = <<>>
    /\ ( /\ tc.fam = "blur"
         /\ TheFn.len.num.val = RInt(20)
         /\ TheFn.len.unit = <<"p","x">> ) => filters = <<Blur(RInt(20))>>

\* C6's case: the blur text with all its optional spaces has been parsed
C6_Witness ==
  /\ Done
  /\ orig = <<"b","l","u","r","("," ","2","0"," ","p","x"," ",")">>
  /\ filters = <<Blur(RInt(20))>>
  /\ input = <<>>

\* C7: the argument of brightness and contrast is a number, optionally
\* followed by `%`.  With `%` the factor is the number divided by 100,
\* without it the number itself, whatever its sign or size; a length unit
\* is not converted: the function does not match.
C7_NumberOrPercentage ==
  (Done /\ tc.fam = "factor") =>
    CASE TheFn.suffix = <<"%">> ->
           /\ filters = <<[kind |-> IF TheFn.kind = "brightness"
                                      THEN "Brightness" ELSE "Contrast",
                           v |-> RDiv(TheFn.num.val, RInt(100))]>>
           /\ input = <<>>
      [] TheFn.suffix = <<>> ->
           /\ filters = <<[kind |-> IF TheFn.kind = "brightness"
                                      THEN "Brightness" ELSE "Contrast",
                           v |-> TheFn.num.val]>>
           /\ input = <<>>
      [] OTHER -> filters = <<>> /\ input = orig

\* C7's case: a negative percentage has been parsed
C7_Witness ==
  /\ Done
  /\ orig = <<"c","o","n","t","r","a","s","t","(","-","2","0","%",")">>
  /\ filters = <<Contrast(Rat(-1, 5))>>

\* C8: a drop-shadow with its two offsets matches and is consumed whole
\* whatever its optional arguments: without a blur-radius the blur-radius is
\* 0, without a colour or with one that does not parse the colour is opaque
\* black, and after an rgb()/rgba() colour both closing parentheses are
\* consumed, so that a function after the drop-shadow is parsed too.
C8_DropShadowOptionalArguments ==
  (Done /\ tc.fam = "shadow" /\ WellFormed(TheFn)) =>
    /\ Len(filters) = Len(tc.fns)
    /\ input = <<>>
    /\ filters[1] = Expected(TheFn)
    /\ ~TheFn.b.present => filters[1].blur = RInt(0)
    /\ (~TheFn.c.present \/ ~TheFn.c.arg.parsable) => filters[1].color = BLACK
    /\ Len(tc.fns) = 2 => filters[2] = Expected(tc.fns[2])

\* C8's case: a drop-shadow without blur-radius and with an rgba() colour,
\* and the blur after it
C8_Witness ==
  /\ Done
  /\ orig = <<"d","r","o","p","-","s","h","a","d","o","w","(","2","p","x"," ","0"," ","r","g","b","a","(","4","7",","," ","2","0",","," ","2","2","3",","," ","2","5","5",")",")"," ","b","l","u","r","(","2","0","p","x",")">>
  /\ Len(filters) = 2
  /\ filters[1].color = RGBA(47, 20, 223, 255)
  /\ filters[2] = Blur(RInt(20))

\* C9: a drop-shadow with one length inside its parentheses never matches,
\* whatever follows its closing parenthesis: no argument is taken from the
\* text after it.
C9_OffsetsInsideParentheses ==
  (Done /\ tc.fam = "short-shadow") => filters = <<>> /\ input = orig

\* C10: the loop terminates.  Every match leaves a strictly shorter suffix of
\* the text it started from and adds one filter, so filters and remaining
\* characters together never exceed the trimmed input's length, and the loop
\* ends where no grammar matches.
C10_LoopTerminates ==
  [][ /\ (pc = "loop" /\ pc' = "loop") =>
           /\ IsSuffix(input', input)
           /\ Len(input') < Len(input)
           /\ Len(filters') = Len(filters) + 1
      /\ pc' # "entry" => Len(filters') + Len(input') <= Len(trim(orig'))
      /\ pc' = "done" => ~alt(input').ok ]_vars

\* C10's case: a list of MaxFns functions has been parsed to its end
C10_Witness ==
  /\ Done
  /\ Len(filters) >= 3
  /\ input = <<>>

====
